---- MODULE Spec2Model ----
(***************************************************************************)
(* Model of the group-formation core of src/app.py: normalize_field,       *)
(* compute_similarity_ext, create_groups_ext and publish_groups, over the  *)
(* tables 'nicknames', 'profiles', 'gruppi' and 'sessioni' of one session, *)
(* and of the student's side: create_nickname, join_view, save_profile and *)
(* the session state and cookies of the student's page.                    *)
(*                                                                         *)
(* Conventions                                                             *)
(*  - a text is a sequence of one-character strings; set elements of a     *)
(*    normalised field are texts;                                          *)
(*  - a raw field value is a record [kind, items, text]: None, a native    *)
(*    list of texts, or a str;                                             *)
(*  - a weight is an integer number of quarters (0.25 is 1, 1.0 is 4);     *)
(*  - scores are exact rationals kept as integers over the common          *)
(*    denominators JScale (Jaccard) and AvgScale (average).  The rounding  *)
(*    of Python floats is not modelled: the stored sessions use weights    *)
(*    and set sizes whose products and sums are exact binary fractions,    *)
(*    for which the order of the float averages is the exact order.        *)
(***************************************************************************)
EXTENDS Integers, Sequences, FiniteSets, TLC

VARIABLES
    nicknames,   \* rows of 'nicknames' of the session, in table order
    profiles,    \* rows of 'profiles' of the session, in table order
    tema,        \* sessioni.tema of the session
    pubblicato,  \* sessioni.pubblicato of the session
    gruppi,      \* rows of 'gruppi' of the session, in table order
    published,   \* st.session_state["published_sessions"].get(session_id)
    faults,      \* store failures injected so far
    call,        \* what the last operation computed and how it ended
    inflight,    \* the calls that run step by step
    ever_published,  \* publish_groups has been called for the session
    session_state,   \* st.session_state of each open tab of the student's page
    cookies          \* the student's cookies of the browser

vars == <<nicknames, profiles, tema, pubblicato, gruppi, published, faults, call,
          inflight, ever_published, session_state, cookies>>

----------------------------------------------------------------------------
(* Bounds of the model *)

MaxProfiles == 5

MaxGroupSize == 4

MaxFaults == 1

ClusterSize == 4

----------------------------------------------------------------------------
(* Raw field values as the store returns them *)

NoneVal == [kind |-> "none", items |-> <<>>, text |-> <<>>]

ListVal(items) == [kind |-> "list", items |-> items, text |-> <<>>]

StrVal(text) == [kind |-> "str", items |-> <<>>, text |-> text]

NULL == "NULL"

Range(s) == {s[i] : i \in 1..Len(s)}

(* the sequence s as an explicit tuple: TLC keeps [i \in 1..n |-> e] as a   *)
(* closure and evaluates e again on every application                       *)
AsTuple(s) == SubSeq(s, 1, Len(s))

(* Body(value) with value evaluated once, as an assignment to a local does *)
With(value, Body(_)) == CHOOSE r \in {Body(v) : v \in {value}} : TRUE

----------------------------------------------------------------------------
(* json.loads restricted to what normalize_field tells apart: a flat list   *)
(* of string literals, another JSON value (a lone string literal), or a     *)
(* parse error.  No whitespace, no escapes, no nested values.               *)

RECURSIVE ClosingQuote(_, _)
ClosingQuote(t, j) ==
    IF j > Len(t) THEN 0
    ELSE IF t[j] = "\"" THEN j
    ELSE ClosingQuote(t, j + 1)

ParseError == [kind |-> "error", items |-> <<>>]

RECURSIVE ParseElems(_, _, _)
ParseElems(t, i, acc) ==
    LET q == IF i <= Len(t) /\ t[i] = "\"" THEN ClosingQuote(t, i + 1) ELSE 0
    IN  IF q = 0 THEN ParseError
        ELSE LET acc2 == Append(acc, SubSeq(t, i + 1, q - 1))
             IN  IF q + 1 = Len(t) /\ t[q + 1] = "]"
                     THEN [kind |-> "list", items |-> acc2]
                 ELSE IF q + 1 < Len(t) /\ t[q + 1] = ","
                     THEN ParseElems(t, q + 2, acc2)
                 ELSE ParseError

json_loads(t) ==
    IF Len(t) >= 2 /\ t[1] = "["
        THEN IF Len(t) = 2 /\ t[2] = "]"
                 THEN [kind |-> "list", items |-> <<>>]
                 ELSE ParseElems(t, 2, <<>>)
    ELSE IF Len(t) >= 2 /\ t[1] = "\"" /\ ClosingQuote(t, 2) = Len(t)
        THEN [kind |-> "scalar", items |-> <<>>]
    ELSE ParseError

(* a parse error answered with the empty set *)
normalize_field_dropping(x) ==
    IF x.kind = "none" THEN {}
    ELSE IF x.kind = "list" THEN Range(x.items)
    ELSE IF x.text = <<>> THEN {}
    ELSE LET parsed == json_loads(x.text)
         IN  IF parsed.kind = "list" THEN Range(parsed.items)
             ELSE IF parsed.kind = "error" THEN {}
             ELSE {x.text}

normalize_field(x) ==
    IF x.kind = "none" THEN {}                         \* if not x
    ELSE IF x.kind = "list" THEN Range(x.items)        \* [] is falsy too
    ELSE IF x.text = <<>> THEN {}                      \* "" is falsy
    ELSE LET parsed == json_loads(x.text)
         IN  IF parsed.kind = "list" THEN Range(parsed.items)
             ELSE IF parsed.kind = "error" THEN {x.text}   \* except: return {x}
             ELSE {x.text}                                 \* return {str(x)}

----------------------------------------------------------------------------
(* Inputs *)

Ta == <<"a">>
Tb == <<"b">>
Tc == <<"c">>

JsonListB == <<"[", "\"", "b", "\"", "]">>          \* the str ["b"]
JsonListAB == <<"[", "\"", "a", "\"", ",", "\"", "b", "\"", "]">>
Unclosed == <<"[", "\"", "a", "\"">>                \* the str ["a"
JsonScalarA == <<"\"", "a", "\"">>                  \* the str "a"

FieldValues ==
    { NoneVal, ListVal(<<>>), ListVal(<<Ta>>), ListVal(<<Ta, Tb>>), ListVal(<<Tc>>),
      StrVal(<<>>), StrVal(Ta), StrVal(JsonListB), StrVal(JsonListAB),
      StrVal(Unclosed), StrVal(JsonScalarA), StrVal(<<"[", "]">>) }

Approcci == {"Analitico", "Creativo"}

Roles == {"Manager", "CEO"}

Categories == {"hobby", "approccio", "materie", "obiettivi", "future_role"}

Profile(id, ap, h, mf, md, ob, fr) ==
    [id |-> id, approccio |-> ap, hobby |-> h, materie_fatte |-> mf,
     materie_dafare |-> md, obiettivi |-> ob, future_role |-> fr]

Weights(h, a, m, o, f) ==
    [hobby |-> h, approccio |-> a, materie |-> m, obiettivi |-> o, future_role |-> f]

----------------------------------------------------------------------------
(* Exact arithmetic: common denominators *)

RECURSIVE Gcd(_, _)
Gcd(a, b) == IF b = 0 THEN a ELSE Gcd(b, a % b)

RECURSIVE LcmUpTo(_)
LcmUpTo(n) == IF n <= 1 THEN 1 ELSE LET l == LcmUpTo(n - 1) IN (l * n) \div Gcd(l, n)

Universe == UNION {normalize_field(x) : x \in FieldValues}

(* 1.0 of a sub-score *)
JScale == LcmUpTo(Cardinality(Universe))

----------------------------------------------------------------------------
(* compute_similarity_ext *)

(* the overlap measured against the first set only *)
JaccardFirst(A, B) ==
    IF A = {} THEN 0 ELSE (Cardinality(A \cap B) * JScale) \div Cardinality(A)

Jaccard(A, B) == (Cardinality(A \cap B) * JScale) \div Cardinality(A \cup B)

(* sub-score of a set-valued category; nothing is added when both are empty *)
(* two empty sets taken as identical *)
SetSubScoreVacuous(A, B) == IF A # {} \/ B # {} THEN Jaccard(A, B) ELSE JScale

SetSubScore(A, B) == IF A # {} \/ B # {} THEN Jaccard(A, B) ELSE 0

(* sub-score of a categorical category; nothing is added unless both are set *)
(* a mismatch counted as a penalty *)
CatSubScorePenalty(v1, v2) ==
    IF v1 # NULL /\ v2 # NULL THEN (IF v1 = v2 THEN JScale ELSE 0 - JScale) ELSE 0

(* a plain equality test, which two missing values pass *)
CatSubScoreNullMatch(v1, v2) == IF v1 = v2 THEN JScale ELSE 0

CatSubScore(v1, v2) ==
    IF v1 # NULL /\ v2 # NULL THEN (IF v1 = v2 THEN JScale ELSE 0) ELSE 0

(* the subjects already done alone *)
MaterieFatteOnly(p) == normalize_field(p.materie_fatte)

Materie(p) == normalize_field(p.materie_fatte) \cup normalize_field(p.materie_dafare)

SubScores(p1, p2) ==
    [hobby       |-> SetSubScore(normalize_field(p1.hobby), normalize_field(p2.hobby)),
     approccio   |-> CatSubScore(p1.approccio, p2.approccio),
     materie     |-> SetSubScore(Materie(p1), Materie(p2)),
     obiettivi   |-> SetSubScore(normalize_field(p1.obiettivi), normalize_field(p2.obiettivi)),
     future_role |-> CatSubScore(p1.future_role, p2.future_role)]

(* a weight of 0 taken as missing and replaced by the slider default *)
compute_similarity_defaulting(p1, p2, weights) ==
    LET sub == SubScores(p1, p2)
        Or(w, d) == IF w = 0 THEN d ELSE w
    IN  Or(weights.hobby, 3) * sub.hobby
        + Or(weights.approccio, 1) * sub.approccio
        + Or(weights.materie, 1) * sub.materie
        + Or(weights.obiettivi, 1) * sub.obiettivi
        + Or(weights.future_role, 1) * sub.future_role

(* the weighted sum averaged over the five categories *)
compute_similarity_averaged(p1, p2, weights) ==
    LET sub == SubScores(p1, p2)
    IN  (weights.hobby * sub.hobby
         + weights.approccio * sub.approccio
         + weights.materie * sub.materie
         + weights.obiettivi * sub.obiettivi
         + weights.future_role * sub.future_role) \div 5

compute_similarity_ext(p1, p2, weights) ==
    LET sub == SubScores(p1, p2)
    IN  weights.hobby * sub.hobby
        + weights.approccio * sub.approccio
        + weights.materie * sub.materie
        + weights.obiettivi * sub.obiettivi
        + weights.future_role * sub.future_role

----------------------------------------------------------------------------
(* create_groups_ext: scores, sort, serpentine chunks *)

MaxNamed == 13

MaxStudents ==
    LET m == IF MaxProfiles > 2 * ClusterSize THEN MaxProfiles ELSE 2 * ClusterSize
    IN  IF MaxNamed > m THEN MaxNamed ELSE m

(* 1.0 of an average of similarities *)
AvgScale == LcmUpTo(MaxStudents)

RECURSIVE SumSeq(_)
SumSeq(s) == IF s = <<>> THEN 0 ELSE Head(s) + SumSeq(Tail(s))

Reverse(s) == AsTuple([i \in 1..Len(s) |-> s[Len(s) + 1 - i]])

RECURSIVE Flatten(_)
Flatten(ss) == IF ss = <<>> THEN <<>> ELSE Head(ss) \o Flatten(Tail(ss))

Min(a, b) == IF a < b THEN a ELSE b

(* s[i:j] for 0 <= i <= j *)
(* a slice that stops one element early *)
SliceShort(s, i, j) == SubSeq(s, i + 1, Min(j, Len(s)) - 1)

Slice(s, i, j) == SubSeq(s, i + 1, Min(j, Len(s)))

(* list(range(0, stop, step)) for stop >= 0 and step # 0 *)
PyRange(stop, step) ==
    IF step > 0 THEN AsTuple([k \in 1..((stop + step - 1) \div step) |-> (k - 1) * step])
    ELSE <<>>

(* scores of students[i] against every other student, in list order *)
ScoresOf(students, i, weights) ==
    With(SelectSeq(students, LAMBDA q : q.id # students[i].id), LAMBDA others :
        AsTuple([k \in 1..Len(others) |->
                    compute_similarity_ext(students[i], others[k], weights)]))

(* avg_score as a function of the position in students *)
AvgScore(students, weights) ==
    AsTuple([i \in 1..Len(students) |->
        With(ScoresOf(students, i, weights), LAMBDA scores :
            IF scores # <<>> THEN (SumSeq(scores) * AvgScale) \div Len(scores) ELSE 0)])

(* the rank under a sort without reverse=True *)
SortRankAscending(keys, i) ==
    1 + Cardinality({j \in 1..Len(keys) : keys[j] < keys[i] \/ (keys[j] = keys[i] /\ j < i)})

(* 1-based rank of position i under list.sort(key=..., reverse=True).  The  *)
(* sort is stable: i comes after every position of a greater key and after  *)
(* the earlier positions of an equal key.                                   *)
SortRank(keys, i) ==
    1 + Cardinality({j \in 1..Len(keys) : keys[j] > keys[i] \/ (keys[j] = keys[i] /\ j < i)})

(* students.sort(key=lambda x: avg_score[x["id"]], reverse=True) *)
SortDesc(students, keys) ==
    With(AsTuple([i \in 1..Len(keys) |-> SortRank(keys, i)]), LAMBDA rank :
        AsTuple([k \in 1..Len(students) |->
                    students[CHOOSE i \in 1..Len(students) : rank[i] = k]]))

Bucketed(sorted, group_size) ==
    With(PyRange(Len(sorted), group_size), LAMBDA starts :
        Flatten(AsTuple([k \in 1..Len(starts) |->
            With(Slice(sorted, starts[k], starts[k] + group_size), LAMBDA chunk :
                IF (starts[k] \div group_size) % 2 = 1 THEN Reverse(chunk) ELSE chunk)])))

(* only the chunks that are full *)
GroupsOfFull(bucketed, group_size) ==
    With(PyRange(Len(bucketed), group_size), LAMBDA starts :
        SelectSeq(AsTuple([k \in 1..Len(starts) |->
                              Slice(bucketed, starts[k], starts[k] + group_size)]),
                  LAMBDA chunk : Len(chunk) = group_size))

GroupsOf(bucketed, group_size) ==
    With(PyRange(Len(bucketed), group_size), LAMBDA starts :
        AsTuple([k \in 1..Len(starts) |->
                    Slice(bucketed, starts[k], starts[k] + group_size)]))

MemberIds(groups) ==
    AsTuple([g \in 1..Len(groups) |->
                AsTuple([m \in 1..Len(groups[g]) |-> groups[g][m].id])])

(* the groups of create_groups_ext as lists of profile ids, for group_size # 0 *)
MakeGroups(students, group_size, weights) ==
    With(AvgScore(students, weights), LAMBDA avg_score :
    With(SortDesc(students, avg_score), LAMBDA sorted :
    With(Bucketed(sorted, group_size), LAMBDA bucketed :
    With(GroupsOf(bucketed, group_size), LAMBDA groups :
        MemberIds(groups)))))

----------------------------------------------------------------------------
(* group names *)

THEME_GROUP_NAMES ==
    [Anime      |-> <<"Akira", "Totoro", "Naruto", "Luffy", "Saitama", "Asuka", "Shinji", "Kenshin">>,
     Sport      |-> <<"Maradona", "Jordan", "Federer", "Bolt", "Ali", "Phelps", "Serena">>,
     Spazio     |-> <<"Apollo", "Orion", "Luna", "Cosmos", "Nova", "Mars">>,
     Natura     |-> <<"Quercia", "Rosa", "Vento", "Onda", "Sole", "Mare", "Cielo">>,
     Tecnologia |-> <<"Byte", "Pixel", "Quantum", "Neural", "Circuit", "Code">>,
     Storia     |-> <<"Roma", "Atene", "Sparta", "Troia", "Cartagine", "Babilonia">>,
     Mitologia  |-> <<"Zeus", "Athena", "Thor", "Ra", "Anubi", "Odino">>]

NamesPool(theme, ngroups) ==
    IF theme \in DOMAIN THEME_GROUP_NAMES THEN THEME_GROUP_NAMES[theme]
    ELSE AsTuple([i \in 1..ngroups |-> "Gruppo " \o ToString(i)])

(* nome of the group at 0-based position idx *)
(* the last name of the pool reused once the pool is exhausted *)
GroupNameClamped(theme, ngroups, idx) ==
    LET names_pool == NamesPool(theme, ngroups)
    IN  names_pool[Min(idx, Len(names_pool) - 1) + 1]

(* numbering that continues after the groups already stored *)
GroupNameContinuing(theme, ngroups, idx) ==
    LET names_pool == NamesPool(theme, ngroups)
    IN  names_pool[((idx + Len(gruppi)) % Len(names_pool)) + 1]

GroupName(theme, ngroups, idx) ==
    LET names_pool == NamesPool(theme, ngroups)
    IN  names_pool[(idx % Len(names_pool)) + 1]

----------------------------------------------------------------------------
(* Operations *)

NoCall == [op |-> "none"]

GroupRow(nome, membri, theme) == [nome_gruppo |-> nome, membri |-> membri, tema |-> theme]

(* the rows create_groups_ext inserts, in insertion order, skipping failed inserts *)
InsertedRows(groups, theme, insert_fails) ==
    LET idxs == SelectSeq([k \in 1..Len(groups) |-> k - 1], LAMBDA idx : idx \notin insert_fails)
    IN  AsTuple([k \in 1..Len(idxs) |->
            GroupRow(GroupName(theme, Len(groups), idxs[k]), groups[idxs[k] + 1], theme)])

(* how create_groups_ext ends when there is nothing to group: a warning and *)
(* a plain return                                                           *)
(* nothing to group treated as a failure *)
EmptyOutcomeRaises(nicks) == "ValueError"

EmptyOutcome(nicks) == IF nicks = <<>> THEN "no_nicknames" ELSE "no_profiles"

(* the outcomes that are a raised exception *)
Raised == {"ValueError", "ZeroDivisionError"}

(* the outcomes that are a normal return *)
Returned == {"ok", "no_nicknames", "no_profiles"}

(* the average of a profile without peers taken without the guard *)
GroupingErrorUnguarded(students, group_size) ==
    IF Len(students) = 1 THEN "ZeroDivisionError"
    ELSE IF group_size = 0 THEN "ValueError"
    ELSE "none"

(* the exception that escapes from the grouping of a non-empty list: the    *)
(* divisions are guarded ('if scores', 'if h1 or h2'), range() rejects a    *)
(* step of 0                                                                *)
GroupingError(students, group_size) ==
    IF group_size = 0 THEN "ValueError" ELSE "none"

(* what the previous operation produced, when it was the same call on the   *)
(* same snapshot                                                            *)
Rerun(base) ==
    IF /\ call.op = "create_groups_ext"
       /\ call.group_size = base.group_size
       /\ call.weights = base.weights
       /\ call.students = base.students
    THEN [same |-> TRUE, outcome |-> call.outcome, groups |-> call.groups, names |-> call.names]
    ELSE [same |-> FALSE, outcome |-> "", groups |-> <<>>, names |-> <<>>]

(* create_groups_ext(session_id, group_size, weights); delete_fails and     *)
(* insert_fails are the store calls that raise (both are swallowed)         *)
CreateGroupsExt(group_size, weights, delete_fails, insert_fails) ==
    LET students == profiles
        base == [op |-> "create_groups_ext", group_size |-> group_size,
                 weights |-> weights, students |-> students]
    IN
    IF nicknames = <<>> \/ students = <<>> THEN
        \* st.warning(...); return
        /\ delete_fails = FALSE /\ insert_fails = {}
        /\ call' = base @@ [outcome |-> EmptyOutcome(nicknames), groups |-> <<>>,
                            names |-> <<>>, rerun |-> Rerun(base)]
        /\ UNCHANGED <<nicknames, profiles, tema, pubblicato, gruppi, published, faults,
                     inflight, ever_published, session_state, cookies>>
    ELSE IF GroupingError(students, group_size) # "none" THEN
        \* range(0, len(students), 0) raises ValueError before any store write
        /\ delete_fails = FALSE /\ insert_fails = {}
        /\ call' = base @@ [outcome |-> GroupingError(students, group_size), groups |-> <<>>,
                            names |-> <<>>, rerun |-> Rerun(base)]
        /\ UNCHANGED <<nicknames, profiles, tema, pubblicato, gruppi, published, faults,
                     inflight, ever_published, session_state, cookies>>
    ELSE
        \E groups \in {MakeGroups(students, group_size, weights)} :
            LET nfail == (IF delete_fails THEN 1 ELSE 0) + Cardinality(insert_fails)
            IN  /\ insert_fails \subseteq 0..(Len(groups) - 1)
                /\ faults + nfail <= MaxFaults
                /\ faults' = faults + nfail
                /\ gruppi' = (IF delete_fails THEN gruppi ELSE <<>>)
                                \o InsertedRows(groups, tema, insert_fails)
                /\ published' = FALSE
                /\ call' = base @@
                       [outcome |-> "ok", groups |-> groups,
                        names |-> AsTuple([k \in 1..Len(groups) |->
                                              GroupName(tema, Len(groups), k - 1)]),
                        rerun |-> Rerun(base)]
                /\ UNCHANGED <<nicknames, profiles, tema, pubblicato, inflight, ever_published,
                               session_state, cookies>>

(* publish_groups(session_id); update_fails: the store update raises (swallowed) *)
PublishGroups(update_fails) ==
    /\ faults + (IF update_fails THEN 1 ELSE 0) <= MaxFaults
    /\ faults' = faults + (IF update_fails THEN 1 ELSE 0)
    /\ pubblicato' = (IF update_fails THEN pubblicato ELSE TRUE)
    /\ published' = TRUE
    /\ call' = [op |-> "publish_groups"]
    /\ ever_published' = TRUE
    /\ UNCHANGED <<nicknames, profiles, tema, gruppi, inflight, session_state, cookies>>

(* one evaluation of compute_similarity_ext on the two stored profiles, both ways *)
ComputeSimilarity(weights) ==
    /\ Len(profiles) = 2
    /\ call' = [op |-> "compute_similarity_ext", weights |-> weights,
                sub |-> SubScores(profiles[1], profiles[2]),
                score |-> compute_similarity_ext(profiles[1], profiles[2], weights),
                swapped |-> compute_similarity_ext(profiles[2], profiles[1], weights)]
    /\ UNCHANGED <<nicknames, profiles, tema, pubblicato, gruppi, published, faults,
                     inflight, ever_published, session_state, cookies>>

----------------------------------------------------------------------------
(* Specification of the grouping over a stored session *)

Nick(i) == [id |-> i, code4 |-> i - 1, nickname |-> NULL]

Kind1 == Profile(0, "Analitico", ListVal(<<Ta>>), ListVal(<<Tc>>), NoneVal, ListVal(<<>>), "Manager")
Kind2 == Profile(0, "Creativo", ListVal(<<Ta, Tb>>), ListVal(<<>>), StrVal(Tc), ListVal(<<Tb>>), NULL)

GroupKinds == {Kind1, Kind2}

MixedWeights == Weights(3, 1, 1, 1, 1)
ZeroWeights == Weights(0, 0, 0, 0, 0)
HobbyOnly == Weights(4, 0, 0, 0, 0)
SkewedWeights == Weights(0 - 1, 1, 0, 2, 0)

GroupWeights == {MixedWeights, ZeroWeights, SkewedWeights}

GroupSizes == (0 - 1)..MaxGroupSize

Tables(n, kinds) ==
    {[i \in 1..n |-> [ks[i] EXCEPT !.id = i]] : ks \in [1..n -> kinds]}

Init ==
    /\ \E n \in 0..MaxProfiles :
        /\ \E m \in {n, IF n = 0 THEN 1 ELSE n} : nicknames = [i \in 1..m |-> Nick(i)]
        /\ profiles \in Tables(n, GroupKinds)
    /\ tema \in {"Spazio", "Generico"}
    /\ pubblicato = FALSE
    /\ gruppi = <<>>
    /\ published = NULL
    /\ faults = 0
    /\ call = NoCall
    /\ inflight = <<>>
    /\ ever_published = FALSE
    /\ session_state = <<>>
    /\ cookies = <<>>

(* a call of create_groups_ext with any integer group size (the teacher's  *)
(* form offers 2..12), on a store that answers every call                  *)
CreateGroups ==
    \E group_size \in GroupSizes, weights \in GroupWeights :
        CreateGroupsExt(group_size, weights, FALSE, {})

Next == CreateGroups

Spec == Init /\ [][Next]_vars

-----------------------------------------------------------------------------
(* Specification of compute_similarity_ext over pairs of profiles *)

(* the set-valued fields other than hobby *)
MaterieFatteValues == {NoneVal, ListVal(<<Ta>>), StrVal(JsonListB)}
MaterieDafareValues == {ListVal(<<>>), ListVal(<<Tc>>), ListVal(<<Ta>>)}
ObiettiviValues == {NoneVal, ListVal(<<>>), StrVal(<<>>), ListVal(<<Ta, Tb>>)}

SimProfiles ==
    {Profile(0, "Analitico", h, ListVal(<<>>), NoneVal, ListVal(<<Tb>>), "Manager") :
        h \in FieldValues}
    \cup {Profile(0, ap, NoneVal, ListVal(<<Ta>>), NoneVal, NoneVal, fr) :
        ap \in Approcci \cup {NULL}, fr \in Roles \cup {NULL}}
    \cup {Profile(0, "Creativo", ListVal(<<Ta>>), mf, md, ob, NULL) :
        mf \in MaterieFatteValues, md \in MaterieDafareValues, ob \in ObiettiviValues}

DistinctWeights == Weights(4, 3, 2, 1, 2)

(* weight on hobby and approccio only, summing to 1.0 *)
HobbyApproach == Weights(3, 1, 0, 0, 0)

SimWeights == {MixedWeights, ZeroWeights, SkewedWeights, DistinctWeights, HobbyApproach}

InitSim ==
    /\ nicknames = <<Nick(1), Nick(2)>>
    /\ \E a \in SimProfiles, b \in SimProfiles :
          profiles = <<[a EXCEPT !.id = 1], [b EXCEPT !.id = 2]>>
    /\ tema = "Generico"
    /\ pubblicato = FALSE
    /\ gruppi = <<>>
    /\ published = NULL
    /\ faults = 0
    /\ call = NoCall
    /\ inflight = <<>>
    /\ ever_published = FALSE
    /\ session_state = <<>>
    /\ cookies = <<>>

NextSim == \E weights \in SimWeights : ComputeSimilarity(weights)

SpecSim == InitSim /\ [][NextSim]_vars

-----------------------------------------------------------------------------
(* Specification of the grouping over two clusters of ClusterSize profiles *)

(* the hobby values of the two clusters; their normalised sets are disjoint *)
ClusterHobbies ==
    {<<ListVal(<<Ta>>), ListVal(<<Tb>>)>>,
     <<ListVal(<<Ta, Tb>>), ListVal(<<Tc>>)>>,
     <<StrVal(JsonListAB), StrVal(Tc)>>}

ClusterProfile(id, h) ==
    Profile(id, "Analitico", h, ListVal(<<>>), ListVal(<<>>), ListVal(<<>>), "Manager")

InitCluster ==
    /\ nicknames = [i \in 1..(2 * ClusterSize) |-> Nick(i)]
    /\ \E first \in {T \in SUBSET (1..(2 * ClusterSize)) : Cardinality(T) = ClusterSize},
          hs \in ClusterHobbies :
          profiles = [i \in 1..(2 * ClusterSize) |->
                         ClusterProfile(i, IF i \in first THEN hs[1] ELSE hs[2])]
    /\ tema = "Spazio"
    /\ pubblicato = FALSE
    /\ gruppi = <<>>
    /\ published = NULL
    /\ faults = 0
    /\ call = NoCall
    /\ inflight = <<>>
    /\ ever_published = FALSE
    /\ session_state = <<>>
    /\ cookies = <<>>

NextCluster == CreateGroupsExt(ClusterSize, HobbyOnly, FALSE, {})

SpecCluster == InitCluster /\ [][NextCluster]_vars

-----------------------------------------------------------------------------
(* Specification of the similarity and the grouping when every weight is 0 *)

InitZero == Init \/ InitSim

NextZero ==
    \/ \E group_size \in 2..MaxGroupSize :
          CreateGroupsExt(group_size, ZeroWeights, FALSE, {})
    \/ ComputeSimilarity(ZeroWeights)

SpecZero == InitZero /\ [][NextZero]_vars

-----------------------------------------------------------------------------
(* Specification of the grouping over profiles of any content *)

MaxRobust == 3

RobustValues ==
    {NoneVal, ListVal(<<>>), StrVal(<<>>), ListVal(<<Ta, Tb>>),
     StrVal(JsonListAB), StrVal(Unclosed), StrVal(Ta), StrVal(JsonScalarA)}

RobustKinds ==
    {Profile(0, IF h = NoneVal THEN NULL ELSE "Analitico", h, h, NoneVal, StrVal(<<>>), NULL) :
        h \in RobustValues}

RobustWeights == {MixedWeights, ZeroWeights}

InitRobust ==
    /\ \E n \in 0..MaxRobust :
        /\ nicknames = [i \in 1..(IF n = 0 THEN 1 ELSE n) |-> Nick(i)]
        /\ profiles \in Tables(n, RobustKinds)
    /\ tema = "Spazio"
    /\ pubblicato = FALSE
    /\ gruppi = <<>>
    /\ published = NULL
    /\ faults = 0
    /\ call = NoCall
    /\ inflight = <<>>
    /\ ever_published = FALSE
    /\ session_state = <<>>
    /\ cookies = <<>>

NextRobust ==
    \E group_size \in 2..MaxGroupSize, weights \in RobustWeights :
        CreateGroupsExt(group_size, weights, FALSE, {})

SpecRobust == InitRobust /\ [][NextRobust]_vars

-----------------------------------------------------------------------------
(* Specification of two calls of create_groups_ext for one session whose    *)
(* store calls interleave (two teacher pages; each script run is a thread)  *)

MaxConcurrent == 3

Callers == 1..2

Idle == [pc |-> "idle", groups |-> <<>>, theme |-> "", next |-> 0]

(* the reads and the computation of the groups, up to names_pool *)
Fetch(p, group_size, weights) ==
    /\ inflight[p].pc = "idle"
    /\ LET students == profiles
       IN  IF nicknames = <<>> \/ students = <<>>
                  \/ GroupingError(students, group_size) # "none"
           THEN inflight' = [inflight EXCEPT ![p].pc = "done"]
           ELSE \E groups \in {MakeGroups(students, group_size, weights)} :
                    inflight' = [inflight EXCEPT ![p] =
                        [pc |-> "delete", groups |-> groups, theme |-> tema, next |-> 0]]
    /\ UNCHANGED <<nicknames, profiles, tema, pubblicato, gruppi, published, faults,
                   call, ever_published, session_state, cookies>>

(* supabase.table("gruppi").delete().eq("sessione_id", session_id) *)
DeleteStep(p) ==
    /\ inflight[p].pc = "delete"
    /\ gruppi' = <<>>
    /\ inflight' = [inflight EXCEPT ![p].pc =
                        IF inflight[p].groups = <<>> THEN "finish" ELSE "insert"]
    /\ UNCHANGED <<nicknames, profiles, tema, pubblicato, published, faults,
                   call, ever_published, session_state, cookies>>

(* one turn of the insert loop *)
InsertStep(p) ==
    /\ inflight[p].pc = "insert"
    /\ LET run == inflight[p]
           idx == run.next
           nome == GroupName(run.theme, Len(run.groups), idx)
       IN  /\ gruppi' = Append(gruppi, GroupRow(nome, run.groups[idx + 1], run.theme))
           /\ inflight' = [inflight EXCEPT ![p].next = idx + 1,
                               ![p].pc = IF idx + 1 = Len(run.groups)
                                         THEN "finish" ELSE "insert"]
    /\ UNCHANGED <<nicknames, profiles, tema, pubblicato, published, faults,
                   call, ever_published, session_state, cookies>>

(* published[session_id] = False *)
FinishStep(p) ==
    /\ inflight[p].pc = "finish"
    /\ published' = FALSE
    /\ inflight' = [inflight EXCEPT ![p].pc = "done"]
    /\ UNCHANGED <<nicknames, profiles, tema, pubblicato, gruppi, faults,
                   call, ever_published, session_state, cookies>>

ConcurrentWeights == {MixedWeights, ZeroWeights}

InitConcurrent ==
    /\ \E n \in 2..MaxConcurrent :
        /\ nicknames = [i \in 1..n |-> Nick(i)]
        /\ profiles \in Tables(n, GroupKinds)
    /\ tema = "Spazio"
    /\ pubblicato = FALSE
    /\ gruppi = <<>>
    /\ published = NULL
    /\ faults = 0
    /\ call = NoCall
    /\ inflight = [p \in Callers |-> Idle]
    /\ ever_published = FALSE
    /\ session_state = <<>>
    /\ cookies = <<>>

NextConcurrent ==
    \E p \in Callers :
        \/ \E group_size \in 2..MaxConcurrent, weights \in ConcurrentWeights :
              Fetch(p, group_size, weights)
        \/ DeleteStep(p)
        \/ InsertStep(p)
        \/ FinishStep(p)

SpecConcurrent == InitConcurrent /\ [][NextConcurrent]_vars

-----------------------------------------------------------------------------
(* Specification of the grouping of sessions with more groups than names *)

Themes == DOMAIN THEME_GROUP_NAMES \cup {"Generico"}

InitNaming ==
    /\ \E n \in 1..MaxNamed, k \in {0, 1} :
        /\ nicknames = [i \in 1..n |-> Nick(i)]
        /\ profiles = [i \in 1..n |->
                          [(IF i % 2 = k THEN Kind1 ELSE Kind2) EXCEPT !.id = i]]
    /\ tema \in Themes
    /\ pubblicato = FALSE
    /\ gruppi = <<>>
    /\ published = NULL
    /\ faults = 0
    /\ call = NoCall
    /\ inflight = <<>>
    /\ ever_published = FALSE
    /\ session_state = <<>>
    /\ cookies = <<>>

NextNaming ==
    \E group_size \in {2, MaxGroupSize} :
        CreateGroupsExt(group_size, HobbyOnly, FALSE, {})

SpecNaming == InitNaming /\ [][NextNaming]_vars

-----------------------------------------------------------------------------
(* Specification of creation, publication and the student's page, on a     *)
(* store whose calls may fail                                               *)

MaxGate == 3

(* get_user_group returning None *)
NoGroup == [nome_gruppo |-> "", membri |-> <<>>, tema |-> ""]

(* the first stored group that lists the nickname *)
get_user_group(rows, nickname_id) ==
    LET hits == {k \in 1..Len(rows) : nickname_id \in Range(rows[k].membri)}
    IN  IF hits = {} THEN NoGroup
        ELSE rows[CHOOSE k \in hits : \A j \in hits : k <= j]

(* the page without the publication test *)
IsPublishedAlways(pub_db, local) == TRUE

(* published = pub_db or st.session_state.get("published_sessions", {}).get(sid); *)
(* a missing entry (None) is falsy and is passed as FALSE                         *)
IsPublished(pub_db, local) == pub_db \/ local

(* the section "gruppo assegnato" of the student's page; same_browser tells *)
(* whether the page shares st.session_state with the teacher's page         *)
StudentView(nickname_id, same_browser, read_fails) ==
    /\ faults + (IF read_fails THEN 1 ELSE 0) <= MaxFaults
    /\ faults' = faults + (IF read_fails THEN 1 ELSE 0)
    /\ LET pub_db == IF read_fails THEN FALSE ELSE pubblicato
           local == IF same_browser THEN published ELSE FALSE
           shown == IF IsPublished(pub_db, local)
                    THEN get_user_group(gruppi, nickname_id) ELSE NoGroup
       IN  call' = [op |-> "student_view", nickname_id |-> nickname_id, shown |-> shown]
    /\ UNCHANGED <<nicknames, profiles, tema, pubblicato, gruppi, published,
                   inflight, ever_published, session_state, cookies>>

InitGate ==
    /\ \E n \in 1..MaxGate :
        /\ nicknames = [i \in 1..n |-> Nick(i)]
        /\ profiles \in Tables(n, {Kind1})
    /\ tema = "Spazio"
    /\ pubblicato = FALSE
    /\ gruppi = <<>>
    /\ published = FALSE
    /\ faults = 0
    /\ call = NoCall
    /\ inflight = <<>>
    /\ ever_published = FALSE
    /\ session_state = <<>>
    /\ cookies = <<>>

NextGate ==
    \/ \E delete_fails \in BOOLEAN, insert_fails \in SUBSET {0, 1} :
          CreateGroupsExt(2, MixedWeights, delete_fails, insert_fails)
    \/ \E update_fails \in BOOLEAN : PublishGroups(update_fails)
    \/ \E i \in 1..Len(nicknames), same_browser \in BOOLEAN, read_fails \in BOOLEAN :
          StudentView(nicknames[i].id, same_browser, read_fails)

SpecGate == InitGate /\ [][NextGate]_vars

-----------------------------------------------------------------------------
(* Specification of the grouping over small sessions, for the order and the *)
(* sizes of the chunks                                                      *)

MaxSlice == 5

InitSlice ==
    /\ \E n \in 1..MaxSlice :
        /\ nicknames = [i \in 1..n |-> Nick(i)]
        /\ profiles \in Tables(n, GroupKinds)
    /\ tema = "Spazio"
    /\ pubblicato = FALSE
    /\ gruppi = <<>>
    /\ published = NULL
    /\ faults = 0
    /\ call = NoCall
    /\ inflight = <<>>
    /\ ever_published = FALSE
    /\ session_state = <<>>
    /\ cookies = <<>>

NextSlice ==
    \E group_size \in 2..MaxGroupSize, weights \in GroupWeights :
        CreateGroupsExt(group_size, weights, FALSE, {})

SpecSlice == InitSlice /\ [][NextSlice]_vars

-----------------------------------------------------------------------------
(* Specification of create_nickname on the 'nicknames' rows of one session, *)
(* on a store whose reads and inserts may fail                              *)

MaxNickRows == 4

(* if next_code > 99999 *)
CodeLimit == 99999

(* ... % 100000 *)
CodeModulus == 100000

(* readings of int(datetime.now().strftime("%H%M%S")) % 100000: midnight, *)
(* one second past midnight and 09:59:59                                   *)
ClockCodes == {0, 1, 95959}

Max(S) == CHOOSE x \in S : \A y \in S : y <= x

(* existing: the code4 of every row read for the session *)
ExistingCodes(rows) == {rows[i].code4 : i \in 1..Len(rows)}

(* the first try block: max + 1, or 0 without rows; the ValueError of the *)
(* limit is raised inside the try and caught by its own except, which     *)
(* takes the code from the clock, as it does when the select fails        *)
NextCode(existing, read_fails, clock) ==
    IF read_fails THEN clock
    ELSE LET next_code == IF existing = {} THEN 0 ELSE Max(existing) + 1
         IN  IF next_code > CodeLimit THEN clock ELSE next_code

(* the row the store returns for the payload; the store sets the id *)
NickRecord(id, code4) == [id |-> id, code4 |-> code4, nickname |-> NULL]

(* create_nickname(session_id): failed holds the inserts (1: first, 2: the *)
(* retry) that raise, returned tells whether the insert answers with the *)
(* row or with no data                                                     *)
CreateNickname(read_fails, clock, failed, returned) ==
    /\ Len(nicknames) < MaxNickRows
    /\ LET next_code == NextCode(ExistingCodes(nicknames), read_fails, clock)
           code4 == IF 1 \in failed THEN (next_code + 1) % CodeModulus ELSE next_code
           base == [op |-> "create_nickname", before |-> nicknames,
                    read_fails |-> read_fails, failed |-> failed,
                    returned |-> returned, next_code |-> next_code]
       IN  IF {1, 2} \subseteq failed
           THEN /\ nicknames' = nicknames
                /\ call' = base @@ [outcome |-> "RuntimeError", code4 |-> -1]
           ELSE /\ nicknames' = Append(nicknames, NickRecord(Len(nicknames) + 1, code4))
                /\ call' = base @@ [outcome |-> IF returned = "row" THEN "ok"
                                                ELSE "RuntimeError",
                                    code4 |-> code4]
    /\ UNCHANGED <<profiles, tema, pubblicato, gruppi, published, faults,
                   inflight, ever_published, session_state, cookies>>

(* the codes of the rows a session holds before the call: the first codes *)
(* and the last ones before the limit                                      *)
NickCodes == {0, 1, CodeLimit - 1, CodeLimit}

NickTables ==
    {<<>>} \cup {<<NickRecord(1, a)>> : a \in NickCodes}
           \cup {<<NickRecord(1, a), NickRecord(2, b)>> : a, b \in NickCodes}

InitNick ==
    /\ nicknames \in NickTables
    /\ profiles = <<>>
    /\ tema = "Spazio"
    /\ pubblicato = FALSE
    /\ gruppi = <<>>
    /\ published = NULL
    /\ faults = 0
    /\ call = NoCall
    /\ inflight = <<>>
    /\ ever_published = FALSE
    /\ session_state = <<>>
    /\ cookies = <<>>

NextNick ==
    \E read_fails \in BOOLEAN, clock \in ClockCodes, failed \in SUBSET {1, 2},
       returned \in {"row", "empty"} :
        CreateNickname(read_fails, clock, failed, returned)

SpecNick == InitNick /\ [][NextNick]_vars

-----------------------------------------------------------------------------
(* Specification of concurrent calls of create_nickname for one session:   *)
(* the read of the codes, the insert and the retry are separate requests   *)
(* to the store, and the requests of different callers interleave          *)

MaxNickCallers == 2

NickCallers == 1..MaxNickCallers

NickIdle == [pc |-> "idle", next_code |-> -1, fallback |-> FALSE]

(* whether the first try block ends in its except branch *)
UsesFallback(existing, read_fails) ==
    read_fails \/ (existing # {} /\ Max(existing) + 1 > CodeLimit)

(* the select of the code4 and the computation of next_code *)
ReadCodes(p, read_fails, clock) ==
    /\ inflight[p].pc = "idle"
    /\ inflight' = [inflight EXCEPT ![p] =
                        [pc |-> "insert",
                         next_code |-> NextCode(ExistingCodes(nicknames),
                                                read_fails, clock),
                         fallback |-> UsesFallback(ExistingCodes(nicknames),
                                                   read_fails)]]
    /\ UNCHANGED <<nicknames, profiles, tema, pubblicato, gruppi, published, faults,
                   call, ever_published, session_state, cookies>>

(* the store's answer to insert(payload): it raises, or it stores the row *)
(* and answers with the row or with no data                               *)
StoreInsert(p, code4, raises, returned, on_error) ==
    IF raises
    THEN /\ inflight' = [inflight EXCEPT ![p].pc = on_error]
         /\ UNCHANGED nicknames
    ELSE /\ nicknames' = Append(nicknames, NickRecord(Len(nicknames) + 1, code4))
         /\ inflight' = [inflight EXCEPT ![p].pc =
                             IF returned = "row" THEN "done" ELSE "RuntimeError"]

(* the first insert, with next_code *)
InsertNick(p, raises, returned) ==
    /\ inflight[p].pc = "insert"
    /\ StoreInsert(p, inflight[p].next_code, raises, returned, "retry")
    /\ UNCHANGED <<profiles, tema, pubblicato, gruppi, published, faults,
                   call, ever_published, session_state, cookies>>

(* the single retry, with (next_code + 1) % 100000 *)
RetryNick(p, raises, returned) ==
    /\ inflight[p].pc = "retry"
    /\ StoreInsert(p, (inflight[p].next_code + 1) % CodeModulus, raises, returned,
                   "RuntimeError")
    /\ UNCHANGED <<profiles, tema, pubblicato, gruppi, published, faults,
                   call, ever_published, session_state, cookies>>

InitNickConcurrent ==
    /\ nicknames \in {<<>>} \cup {<<NickRecord(1, a)>> : a \in NickCodes}
    /\ profiles = <<>>
    /\ tema = "Spazio"
    /\ pubblicato = FALSE
    /\ gruppi = <<>>
    /\ published = NULL
    /\ faults = 0
    /\ call = NoCall
    /\ inflight = [p \in NickCallers |-> NickIdle]
    /\ ever_published = FALSE
    /\ session_state = <<>>
    /\ cookies = <<>>

NextNickConcurrent ==
    \E p \in NickCallers :
        \/ \E read_fails \in BOOLEAN, clock \in ClockCodes : ReadCodes(p, read_fails, clock)
        \/ \E raises \in BOOLEAN, returned \in {"row", "empty"} :
              InsertNick(p, raises, returned)
        \/ \E raises \in BOOLEAN, returned \in {"row", "empty"} :
              RetryNick(p, raises, returned)

SpecNickConcurrent == InitNickConcurrent /\ [][NextNickConcurrent]_vars

-----------------------------------------------------------------------------
(* Specification of join_view: guests of several sessions join and rerun   *)
(* the page, on a store whose calls may fail                               *)

MaxRpcCode == 2

JoinSessions == {"S1", "S2"}

(* st.session_state["guest_id"] of the browsers *)
Guests == {"g1", "g2"}

(* the row stored for the payload of create_nickname_record *)
GuestRecord(id, session_id, guest_id, code4) ==
    [id |-> id, session_id |-> session_id, guest_id |-> guest_id, code4 |-> code4]

(* a lookup that never finds the row *)
SelectGuestNone(rows, session_id, guest_id) == <<>>

(* select("*").eq("session_id", ...).eq("guest_id", ...).limit(1) *)
SelectGuest(rows, session_id, guest_id) ==
    LET hits == {i \in 1..Len(rows) : /\ rows[i].session_id = session_id
                                      /\ rows[i].guest_id = guest_id}
    IN  IF hits = {} THEN <<>>
        ELSE <<rows[CHOOSE i \in hits : \A j \in hits : i <= j]>>

(* the answers of the RPC 'reserve_code4': a code4 no row of the session holds *)
FreeCodes(rows, session_id) ==
    (0..MaxRpcCode) \ {rows[i].code4 : i \in {j \in 1..Len(rows) :
                                              rows[j].session_id = session_id}}

(* join_view() with the session id of the link or the form ("" when none is *)
(* given) and the browser's guest_id; create_nickname_record looks the row  *)
(* up, reserves a code and inserts; insert is "row", "empty" or "raises"    *)
JoinView(session_id, guest_id, select_fails, rpc_fails, code4, insert) ==
    LET base == [op |-> "join_view", session_id |-> session_id, guest_id |-> guest_id,
                 existed |-> \E i \in 1..Len(nicknames) :
                                /\ nicknames[i].session_id = session_id
                                /\ nicknames[i].guest_id = guest_id]
        found == SelectGuest(nicknames, session_id, guest_id)
    IN  /\ IF session_id = ""
           THEN /\ call' = base @@ [outcome |-> "missing", reserved |-> FALSE, code4 |-> -1]
                /\ UNCHANGED nicknames
           ELSE IF select_fails
           THEN /\ call' = base @@ [outcome |-> "error", reserved |-> FALSE, code4 |-> -1]
                /\ UNCHANGED nicknames
           ELSE IF found # <<>>
           THEN /\ call' = base @@ [outcome |-> "shown", reserved |-> FALSE,
                                    code4 |-> found[1].code4]
                /\ UNCHANGED nicknames
           ELSE IF rpc_fails \/ code4 \notin FreeCodes(nicknames, session_id)
           THEN /\ call' = base @@ [outcome |-> "error", reserved |-> FALSE, code4 |-> -1]
                /\ UNCHANGED nicknames
           ELSE IF insert = "raises"
           THEN /\ call' = base @@ [outcome |-> "error", reserved |-> TRUE, code4 |-> code4]
                /\ UNCHANGED nicknames
           ELSE /\ nicknames' = Append(nicknames,
                                       GuestRecord(Len(nicknames) + 1, session_id,
                                                   guest_id, code4))
                /\ call' = base @@ [outcome |-> IF insert = "row" THEN "shown" ELSE "error",
                                    reserved |-> TRUE, code4 |-> code4]
        /\ UNCHANGED <<profiles, tema, pubblicato, gruppi, published, faults,
                       inflight, ever_published, session_state, cookies>>

InitJoin ==
    /\ nicknames = <<>>
    /\ profiles = <<>>
    /\ tema = "Spazio"
    /\ pubblicato = FALSE
    /\ gruppi = <<>>
    /\ published = NULL
    /\ faults = 0
    /\ call = NoCall
    /\ inflight = <<>>
    /\ ever_published = FALSE
    /\ session_state = <<>>
    /\ cookies = <<>>

NextJoin ==
    \E session_id \in JoinSessions \cup {""}, guest_id \in Guests,
       select_fails \in BOOLEAN, rpc_fails \in BOOLEAN, code4 \in 0..MaxRpcCode,
       insert \in {"row", "empty", "raises"} :
        JoinView(session_id, guest_id, select_fails, rpc_fails, code4, insert)

SpecJoin == InitJoin /\ [][NextJoin]_vars

-----------------------------------------------------------------------------
(* Specification of save_profile on the 'nicknames' and 'profiles' rows of  *)
(* one session, on a store whose calls may fail                             *)

MaxSave == 1

(* to_list: always a list of strings *)
to_list(x) ==
    IF x.kind = "none" THEN ListVal(<<>>)
    ELSE IF x.kind = "list" THEN ListVal(x.items)
    ELSE ListVal(<<x.text>>)

(* the ids 1, 2, ... are UUIDs; 0 is a string uuid.UUID() rejects *)
IsUuid(nickname_id) == nickname_id > 0

RowIds(rows) == {rows[i].id : i \in 1..Len(rows)}

(* a verification that never misses the row *)
PersistedAlways(rows, nickname_id) == TRUE

(* persisted = bool(chk.data) *)
Persisted(rows, nickname_id) == nickname_id \in RowIds(rows)

(* upsert(record, on_conflict="id"): the columns of record replace those of *)
(* the row with the same id, or record becomes a new row; columns holds the *)
(* columns the payload carries                                              *)
Upsert(rows, record, columns) ==
    IF record.id \in RowIds(rows)
    THEN [i \in 1..Len(rows) |->
            IF rows[i].id = record.id
            THEN [c \in DOMAIN rows[i] |->
                    IF c \in columns THEN record[c] ELSE rows[i][c]]
            ELSE rows[i]]
    ELSE Append(rows, [c \in DOMAIN record |->
                          IF c \in columns THEN record[c] ELSE NULL])

ProfileColumns ==
    {"id", "approccio", "hobby", "materie_fatte", "materie_dafare", "obiettivi",
     "future_role"}

(* the two writes of save_profile: the upsert of record and, when it raises, *)
(* the upsert of rec2 without future_role, whose error is only displayed    *)
WriteProfile(rows, record, failed) ==
    IF 1 \notin failed THEN Upsert(rows, record, ProfileColumns)
    ELSE IF 2 \notin failed THEN Upsert(rows, record, ProfileColumns \ {"future_role"})
    ELSE rows

(* update({"nickname": alias}).eq("id", nickname_id) *)
UpdateAlias(rows, nickname_id, alias) ==
    [i \in 1..Len(rows) |->
        IF rows[i].id = nickname_id THEN [rows[i] EXCEPT !.nickname = alias]
        ELSE rows[i]]

(* save_profile(nickname_id, alias, approccio, hobby, ..., future_role):     *)
(* failed holds the upserts that raise, raises names the select that raises *)
(* ("nick_chk", "chk" or "none"), update_fails the update of the alias      *)
SaveProfile(nickname_id, alias, fields, failed, raises, update_fails) ==
    LET record == Profile(nickname_id, fields.approccio, to_list(fields.hobby),
                          to_list(fields.materie_fatte), to_list(fields.materie_dafare),
                          to_list(fields.obiettivi), fields.future_role)
        base == [op |-> "save_profile", nickname_id |-> nickname_id, alias |-> alias,
                 record |-> record, raises |-> raises, failed |-> failed,
                 nicknames_before |-> nicknames, profiles_before |-> profiles]
        written == WriteProfile(profiles, record, failed)
    IN  /\ IF ~IsUuid(nickname_id)
           THEN /\ call' = base @@ [outcome |-> "RuntimeError"]
                /\ UNCHANGED <<nicknames, profiles>>
           ELSE IF raises = "nick_chk"
           THEN /\ call' = base @@ [outcome |-> "Exception"]
                /\ UNCHANGED <<nicknames, profiles>>
           ELSE IF nickname_id \notin RowIds(nicknames)
           THEN /\ call' = base @@ [outcome |-> "RuntimeError"]
                /\ UNCHANGED <<nicknames, profiles>>
           ELSE /\ profiles' = written
                /\ IF raises = "chk"
                   THEN /\ call' = base @@ [outcome |-> "Exception"]
                        /\ UNCHANGED nicknames
                   ELSE IF ~Persisted(written, nickname_id)
                   THEN /\ call' = base @@ [outcome |-> "RuntimeError"]
                        /\ UNCHANGED nicknames
                   ELSE /\ call' = base @@ [outcome |-> "ok"]
                        /\ nicknames' = IF update_fails THEN nicknames
                                        ELSE UpdateAlias(nicknames, nickname_id, alias)
        /\ UNCHANGED <<tema, pubblicato, gruppi, published, faults, inflight,
                       ever_published, session_state, cookies>>

(* the values of the form of the student's page *)
SaveFields ==
    { [approccio |-> "Analitico", hobby |-> ListVal(<<Ta>>),
       materie_fatte |-> ListVal(<<Tc>>), materie_dafare |-> ListVal(<<>>),
       obiettivi |-> ListVal(<<Tb>>), future_role |-> "Manager"],
      [approccio |-> "Creativo", hobby |-> ListVal(<<Ta, Tb>>),
       materie_fatte |-> ListVal(<<>>), materie_dafare |-> ListVal(<<Tc>>),
       obiettivi |-> ListVal(<<>>), future_role |-> "CEO"] }

(* the alias typed in the form *)
Aliases == {"Ada"}

InitSave ==
    /\ \E n \in 1..MaxSave : nicknames = [i \in 1..n |-> NickRecord(i, i - 1)]
    /\ profiles = <<>>
    /\ tema = "Spazio"
    /\ pubblicato = FALSE
    /\ gruppi = <<>>
    /\ published = NULL
    /\ faults = 0
    /\ call = NoCall
    /\ inflight = <<>>
    /\ ever_published = FALSE
    /\ session_state = <<>>
    /\ cookies = <<>>

NextSave ==
    \E nickname_id \in 0..(MaxSave + 1), alias \in Aliases, fields \in SaveFields,
       failed \in {{}, {1}, {1, 2}}, raises \in {"none", "nick_chk", "chk"},
       update_fails \in BOOLEAN :
        SaveProfile(nickname_id, alias, fields, failed, raises, update_fails)

SpecSave == InitSave /\ [][NextSave]_vars

-----------------------------------------------------------------------------
(* Specification of the student's page: the tabs of one browser run the    *)
(* script of tab_student; each tab has its own st.session_state, all share *)
(* the browser's cookies                                                   *)

MaxTabs == 2

MaxStudentNicks == 2

Tabs == 1..MaxTabs

(* the session ids a student enters *)
StudentSessions == {"S1", "S2"}

(* st.session_state of a tab that has not run the page: qp is the          *)
(* session_id of its URL; student_session_id, student_session_id_cached    *)
(* ("" when absent), student_nickname_id (0 when absent), student_pin (-1  *)
(* when absent), the value of the widget stu_session_input (NULL before    *)
(* its first rendering) and whether the last run showed the button         *)
(* stu_confirm_pin.  _student_reset_in_progress is set only by             *)
(* reset_student_session, which nothing calls                              *)
FreshState(qp) ==
    [qp |-> qp, sid |-> "", cached |-> "", nick |-> 0, pin |-> -1,
     input |-> NULL, button |-> FALSE]

(* the cookies student_session_id, student_nickname_id and student_pin;    *)
(* student_session_expiry is written with them and never read              *)
NoCookies == [sid |-> "", nick |-> 0, pin |-> -1]

(* the row create_nickname stores for the session *)
SessionNick(id, session_id, code4) ==
    [id |-> id, session_id |-> session_id, code4 |-> code4, nickname |-> NULL]

RowsOf(rows, session_id) == SelectSeq(rows, LAMBDA r : r.session_id = session_id)

(* a restore that takes the nickname and the PIN only for the cookie's session *)
CookieToStateSameSession(s, ck) ==
    [s EXCEPT !.sid = IF s.sid = "" /\ ck.sid # "" THEN ck.sid ELSE @,
              !.nick = IF s.nick = 0 /\ ck.nick # 0 /\ s.sid \in {"", ck.sid}
                       THEN ck.nick ELSE @,
              !.pin = IF s.pin = -1 /\ ck.pin # -1 /\ s.sid \in {"", ck.sid}
                      THEN ck.pin ELSE @]

(* COOKIE -> STATO: each key missing in the state is taken from its cookie *)
CookieToState(s, ck) ==
    [s EXCEPT !.sid = IF s.sid = "" /\ ck.sid # "" THEN ck.sid ELSE @,
              !.nick = IF s.nick = 0 /\ ck.nick # 0 THEN ck.nick ELSE @,
              !.pin = IF s.pin = -1 /\ ck.pin # -1 THEN ck.pin ELSE @]

(* default_session = qp_session or state or cookie or "" *)
DefaultSession(s, ck) ==
    IF s.qp # "" THEN s.qp ELSE IF s.sid # "" THEN s.sid ELSE ck.sid

(* session_id_input: the text typed, else the widget's value, which is the *)
(* default at its first rendering                                          *)
SessionInput(s, ck, event) ==
    IF event.kind = "type" THEN event.value
    ELSE IF s.input = NULL THEN DefaultSession(s, ck) ELSE s.input

(* "Cambio sessione -> reset nickname" *)
SessionChanged(s, input) == input # "" /\ input # s.sid

(* one run of the script of tab_student down to the sub-tab Nickname, from *)
(* the state s, the cookies ck and the rows of 'nicknames'; event is what  *)
(* triggered the run and created how create_nickname and the verification  *)
(* of its row end                                                          *)
student_run(s, ck, rows, event, created) ==
    LET restored == CookieToState(s, ck)
        input == SessionInput(restored, ck, event)
        changed == SessionChanged(restored, input)
        s2 == IF changed
              THEN [restored EXCEPT !.sid = input, !.nick = 0, !.pin = -1,
                                    !.input = input]
              ELSE [restored EXCEPT !.input = input]
        ck2 == IF changed THEN [sid |-> input, nick |-> 0, pin |-> -1] ELSE ck
        code4 == NextCode(ExistingCodes(RowsOf(rows, input)), FALSE, 0)
        new_nick == SessionNick(Len(rows) + 1, input, code4)
    IN  IF input = ""
        THEN [state |-> [s2 EXCEPT !.button = FALSE], cookies |-> ck2, rows |-> rows,
              changed |-> changed]
        ELSE IF s2.nick = 0 \/ s2.cached # input
        THEN IF event.kind = "confirm" /\ s.button /\ created # "raises"
             THEN IF created = "unverified"
                  THEN [state |-> [s2 EXCEPT !.button = TRUE], cookies |-> ck2,
                        rows |-> Append(rows, new_nick), changed |-> changed]
                  ELSE [state |-> [s2 EXCEPT !.nick = new_nick.id, !.cached = input,
                                             !.pin = code4, !.button = TRUE],
                        cookies |-> [sid |-> input, nick |-> new_nick.id, pin |-> code4],
                        rows |-> Append(rows, new_nick), changed |-> changed]
             ELSE [state |-> [s2 EXCEPT !.button = TRUE], cookies |-> ck2, rows |-> rows,
                   changed |-> changed]
        ELSE [state |-> [s2 EXCEPT !.button = FALSE],
              cookies |-> [sid |-> s2.sid, nick |-> s2.nick, pin |-> s2.pin],
              rows |-> rows, changed |-> changed]

StudentEvents ==
    {[kind |-> "rerun", value |-> ""], [kind |-> "confirm", value |-> ""]}
    \cup {[kind |-> "type", value |-> v] : v \in StudentSessions \cup {""}}

(* the run and what it leaves in the tab, the browser and the store *)
Ran(t, s, ck, event, created, op) ==
    /\ \E r \in {student_run(s, ck, nicknames, event, created)} :
        /\ session_state' = [session_state EXCEPT ![t] = r.state]
        /\ cookies' = r.cookies
        /\ nicknames' = r.rows
        /\ call' = [op |-> op, tab |-> t, changed |-> r.changed, event |-> event.kind]
    /\ UNCHANGED <<profiles, tema, pubblicato, gruppi, published, faults, inflight,
                   ever_published>>

(* the tab runs the page after the student typed a session id, clicked     *)
(* "Conferma nickname" or did anything else that reruns the script         *)
RunStudent(t, event, created) ==
    /\ event.kind = "type" => session_state[t].input # NULL
    /\ event.kind = "confirm" =>
          session_state[t].button /\ Len(nicknames) < MaxStudentNicks
    /\ Ran(t, session_state[t], cookies, event, created, "student_run")

(* reset_teacher_session ("Nuova sessione" of the teacher's tab, once the   *)
(* page is on screen) deletes the student_ keys of the state and the       *)
(* student's cookies, then reruns                                          *)
ResetTeacherSession(t) ==
    /\ session_state[t].input # NULL
    /\ Ran(t, [session_state[t] EXCEPT !.sid = "", !.cached = "", !.nick = 0,
                                       !.pin = -1],
           NoCookies, [kind |-> "rerun", value |-> ""], "row", "reset_teacher_session")

(* manual_cookie_reset of the sidebar clears the cookies, then reruns *)
ManualCookieReset(t) ==
    /\ session_state[t].input # NULL
    /\ Ran(t, session_state[t], NoCookies, [kind |-> "rerun", value |-> ""], "row",
           "manual_cookie_reset")

InitStudent ==
    /\ nicknames = <<>>
    /\ profiles = <<>>
    /\ tema = "Spazio"
    /\ pubblicato = FALSE
    /\ gruppi = <<>>
    /\ published = NULL
    /\ faults = 0
    /\ call = NoCall
    /\ inflight = <<>>
    /\ ever_published = FALSE
    /\ session_state \in [Tabs -> {FreshState(qp) : qp \in StudentSessions \cup {""}}]
    /\ cookies = NoCookies

NextStudent ==
    \E t \in Tabs :
        \/ \E event \in StudentEvents, created \in {"row", "raises", "unverified"} :
              RunStudent(t, event, created)
        \/ ResetTeacherSession(t)
        \/ ManualCookieReset(t)

SpecStudent == InitStudent /\ [][NextStudent]_vars

-----------------------------------------------------------------------------
(* Properties *)

Created == call.op = "create_groups_ext"
Compared == call.op = "compute_similarity_ext"

StudentIds(students) == {students[i].id : i \in 1..Len(students)}

(* C1: when create_groups_ext is called with a group size of at least 2 on a *)
(* non-empty snapshot, it builds groups in which every profile id of the    *)
(* snapshot appears exactly once (none omitted, none repeated), and those   *)
(* groups are the rows it stores.                                           *)
C1_Coverage ==
    (Created /\ call.group_size >= 2 /\ call.students # <<>>) =>
        /\ call.outcome = "ok"
        /\ LET members == Flatten(call.groups)
           IN  /\ Len(members) = Len(call.students)
               /\ Range(members) = StudentIds(call.students)
        /\ Len(gruppi) = Len(call.groups)
        /\ \A k \in 1..Len(gruppi) : gruppi[k].membri = call.groups[k]

(* a run that leaves a remainder: several groups, the last one shorter *)
C1_Witness ==
    /\ Created /\ call.outcome = "ok"
    /\ call.group_size >= 2
    /\ Len(call.groups) >= 2
    /\ Len(call.students) % call.group_size # 0

(* C2: when the snapshot holds 2 or more profiles (group size at least 2),  *)
(* no group that is built has exactly one member.                           *)
C2_NoSingletonGroup ==
    (Created /\ call.group_size >= 2 /\ Len(call.students) >= 2) =>
        \A k \in 1..Len(call.groups) : Len(call.groups[k]) # 1

(* C3: when the snapshot holds 2 or more profiles (group size at least 2),  *)
(* every group has at least 2 and at most group_size members.               *)
C3_SizeBound ==
    (Created /\ call.group_size >= 2 /\ Len(call.students) >= 2) =>
        \A k \in 1..Len(call.groups) :
            /\ 2 <= Len(call.groups[k])
            /\ Len(call.groups[k]) <= call.group_size

(* C4: compute_similarity_ext gives the same score whichever of the two     *)
(* profiles is passed first.                                                *)
C4_Symmetry == Compared => call.score = call.swapped

(* two different profiles with a non-zero score, one of them without hobby *)
C4_Witness ==
    /\ Compared
    /\ call.score # 0
    /\ normalize_field(profiles[1].hobby) = {}
    /\ normalize_field(profiles[2].hobby) # {}
    /\ Materie(profiles[1]) # Materie(profiles[2])

C6_SmallGroupSizeRejected ==
    (Created /\ call.group_size < 2 /\ call.students # <<>>) =>
        /\ call.outcome \in Raised
        /\ call.groups = <<>>

(* C7: a call on a session without profiles (group size at least 2) raises  *)
(* nothing, builds no group and stores none.                                *)
C7_ZeroProfiles ==
    (Created /\ call.group_size >= 2 /\ call.students = <<>>) =>
        /\ call.outcome \notin Raised
        /\ call.groups = <<>>
        /\ gruppi = <<>>

(* a session with a nickname but no profile, grouped with a valid size *)
C7_Witness ==
    /\ Created
    /\ call.group_size >= 2
    /\ call.students = <<>>
    /\ nicknames # <<>>
    /\ profiles = <<>>

HobbySetOf(students, id) ==
    normalize_field(students[CHOOSE i \in 1..Len(students) : students[i].id = id].hobby)

(* C8: with two clusters of ClusterSize profiles whose hobby sets are equal *)
(* inside a cluster and disjoint across clusters, group size ClusterSize    *)
(* and all the weight on hobby, create_groups_ext builds two groups and     *)
(* each holds the members of one cluster, whatever the order of the         *)
(* profiles.                                                                *)
C8_ClustersRecovered ==
    Created =>
        /\ Len(call.groups) = 2
        /\ \A k \in 1..Len(call.groups) :
              /\ Len(call.groups[k]) = ClusterSize
              /\ \A a \in Range(call.groups[k]), b \in Range(call.groups[k]) :
                    HobbySetOf(call.students, a) = HobbySetOf(call.students, b)

BothEmpty(x, y) == normalize_field(x) = {} /\ normalize_field(y) = {}

(* C9, first reading: when both profiles have an empty hobby set the hobby       *)
(* sub-score is 1.0, and likewise for the goals.                            *)
C9_BothEmptyIsOne ==
    Compared =>
        /\ BothEmpty(profiles[1].hobby, profiles[2].hobby) => call.sub.hobby = JScale
        /\ BothEmpty(profiles[1].obiettivi, profiles[2].obiettivi)
              => call.sub.obiettivi = JScale

(* C9, amended: when both profiles have an empty hobby set the hobby        *)
(* sub-score is 0, and likewise for the goals; the category adds nothing to *)
(* the score whatever its weight.                                           *)
C9_BothEmptyIsZero ==
    Compared =>
        /\ BothEmpty(profiles[1].hobby, profiles[2].hobby) =>
              /\ call.sub.hobby = 0
              /\ call.score = call.weights.approccio * call.sub.approccio
                              + call.weights.materie * call.sub.materie
                              + call.weights.obiettivi * call.sub.obiettivi
                              + call.weights.future_role * call.sub.future_role
        /\ BothEmpty(profiles[1].obiettivi, profiles[2].obiettivi) =>
              /\ call.sub.obiettivi = 0
              /\ call.score = call.weights.hobby * call.sub.hobby
                              + call.weights.approccio * call.sub.approccio
                              + call.weights.materie * call.sub.materie
                              + call.weights.future_role * call.sub.future_role

(* both hobby fields empty under different encodings, hobby weighted *)
C9_Witness ==
    /\ Compared
    /\ profiles[1].hobby = NoneVal
    /\ profiles[2].hobby = ListVal(<<>>)
    /\ call.weights.hobby > 0
    /\ call.score > 0

(* C10: the approccio sub-score is 1.0 exactly when both values are present *)
(* and equal, and 0 otherwise; likewise for future_role. Two missing values *)
(* are not a match.                                                         *)
C10_CategoricalMatch ==
    Compared =>
        /\ call.sub.approccio =
              (IF /\ profiles[1].approccio # NULL
                  /\ profiles[2].approccio # NULL
                  /\ profiles[1].approccio = profiles[2].approccio
               THEN JScale ELSE 0)
        /\ call.sub.future_role =
              (IF /\ profiles[1].future_role # NULL
                  /\ profiles[2].future_role # NULL
                  /\ profiles[1].future_role = profiles[2].future_role
               THEN JScale ELSE 0)

(* both roles missing while the approaches are present and equal *)
C10_Witness ==
    /\ Compared
    /\ profiles[1].future_role = NULL
    /\ profiles[2].future_role = NULL
    /\ profiles[1].approccio # NULL
    /\ profiles[1].approccio = profiles[2].approccio
    /\ call.weights.future_role > 0
    /\ call.sub.future_role = 0

(* the Jaccard index of two sets that are not both empty, over JScale *)
JaccardOf(A, B) == (Cardinality(A \cap B) * JScale) \div Cardinality(A \cup B)

HobbyOf(p) == normalize_field(p.hobby)
GoalsOf(p) == normalize_field(p.obiettivi)

(* C11: compute_similarity_ext returns the plain sum over the five          *)
(* categories of weight times sub-score, not normalised; for hobby and      *)
(* goals with at least one non-empty set the sub-score is the size of the   *)
(* intersection over the size of the union.  With weight on hobby and       *)
(* approccio only, identical non-empty hobby sets and equal approaches      *)
(* score weight[hobby] + weight[approccio]; disjoint hobby sets and         *)
(* different approaches score 0.                                            *)
C11_WeightedSum ==
    Compared =>
        LET a == profiles[1]
            b == profiles[2]
            w == call.weights
        IN  /\ call.score = w.hobby * call.sub.hobby
                            + w.approccio * call.sub.approccio
                            + w.materie * call.sub.materie
                            + w.obiettivi * call.sub.obiettivi
                            + w.future_role * call.sub.future_role
            /\ (HobbyOf(a) \cup HobbyOf(b) # {})
                  => call.sub.hobby = JaccardOf(HobbyOf(a), HobbyOf(b))
            /\ (GoalsOf(a) \cup GoalsOf(b) # {})
                  => call.sub.obiettivi = JaccardOf(GoalsOf(a), GoalsOf(b))
            /\ (w = HobbyApproach /\ a.approccio # NULL /\ b.approccio # NULL) =>
                  /\ (HobbyOf(a) # {} /\ HobbyOf(a) = HobbyOf(b) /\ a.approccio = b.approccio)
                        => call.score = (w.hobby + w.approccio) * JScale
                  /\ (HobbyOf(a) # {} /\ HobbyOf(b) # {} /\ HobbyOf(a) \cap HobbyOf(b) = {}
                         /\ a.approccio # b.approccio)
                        => call.score = 0

(* equal non-empty hobby sets under different encodings, equal approaches *)
C11_Witness ==
    /\ Compared
    /\ call.weights = HobbyApproach
    /\ profiles[1].hobby = ListVal(<<Ta, Tb>>)
    /\ profiles[2].hobby = StrVal(JsonListAB)
    /\ profiles[1].approccio = profiles[2].approccio
    /\ call.score = 4 * JScale

DoneOf(p) == normalize_field(p.materie_fatte)
TodoOf(p) == normalize_field(p.materie_dafare)

(* C12: the subjects sub-score of two profiles is the Jaccard index of the  *)
(* union of subjects done and subjects to do of the first with the same     *)
(* union of the second, so a subject done by one and still to do for the    *)
(* other counts as shared.                                                  *)
C12_SubjectsUnion ==
    Compared =>
        LET m1 == DoneOf(profiles[1]) \cup TodoOf(profiles[1])
            m2 == DoneOf(profiles[2]) \cup TodoOf(profiles[2])
        IN  (m1 \cup m2 # {}) => call.sub.materie = JaccardOf(m1, m2)

(* the only shared subject is done by the first and to do for the second *)
C12_Witness ==
    /\ Compared
    /\ DoneOf(profiles[1]) \cap TodoOf(profiles[2]) # {}
    /\ DoneOf(profiles[1]) \cap DoneOf(profiles[2]) = {}
    /\ TodoOf(profiles[1]) \cap TodoOf(profiles[2]) = {}
    /\ TodoOf(profiles[1]) \cap DoneOf(profiles[2]) = {}
    /\ call.sub.materie > 0
    /\ call.weights.materie > 0

NonNegative(w) ==
    /\ w.hobby >= 0 /\ w.approccio >= 0 /\ w.materie >= 0
    /\ w.obiettivi >= 0 /\ w.future_role >= 0

SumOfWeights(w) == w.hobby + w.approccio + w.materie + w.obiettivi + w.future_role

(* C13: for non-negative weights the score of compute_similarity_ext is at  *)
(* least 0 and at most the sum of the five weights; with weights summing to *)
(* 1.0 it lies between 0 and 1.                                             *)
C13_Range ==
    (Compared /\ NonNegative(call.weights)) =>
        /\ call.score >= 0
        /\ call.score <= SumOfWeights(call.weights) * JScale
        /\ (SumOfWeights(call.weights) = 4) => call.score <= 4 * JScale

(* a score strictly inside the range, two approaches that differ *)
C13_Witness ==
    /\ Compared
    /\ NonNegative(call.weights)
    /\ SumOfWeights(call.weights) = 4
    /\ call.score > 0
    /\ call.score < 4 * JScale
    /\ profiles[1].approccio # NULL /\ profiles[2].approccio # NULL
    /\ profiles[1].approccio # profiles[2].approccio

(* C14: when all five weights are 0, compute_similarity_ext returns 0 for   *)
(* every pair of profiles, and create_groups_ext (group size at least 2,    *)
(* at least one profile) still ends normally with every profile id in       *)
(* exactly one group.                                                       *)
C14_ZeroWeights ==
    /\ (Compared /\ call.weights = ZeroWeights) =>
          /\ call.score = 0
          /\ call.swapped = 0
    /\ (Created /\ call.weights = ZeroWeights /\ call.group_size >= 2
           /\ call.students # <<>>) =>
          /\ call.outcome = "ok"
          /\ LET members == Flatten(call.groups)
             IN  /\ Len(members) = Len(call.students)
                 /\ Range(members) = StudentIds(call.students)
          /\ \A k \in 1..Len(gruppi) : gruppi[k].membri = call.groups[k]

(* two profiles that share hobbies and approach, compared with no weight *)
C14_Witness ==
    /\ Compared
    /\ call.weights = ZeroWeights
    /\ call.sub.hobby > 0
    /\ call.sub.approccio > 0
    /\ call.sub.materie > 0

(* a non-empty str that json.loads cannot parse *)
Malformed(x) == x.kind = "str" /\ x.text # <<>> /\ json_loads(x.text).kind = "error"

(* C15, first reading: a hobby field that arrives as a string that cannot   *)
(* be parsed behaves in the similarity like an unanswered field: against a  *)
(* non-empty hobby set of the other profile, or another such string, the    *)
(* hobby sub-score is 0.                                                    *)
C15_MalformedIsEmpty ==
    (Compared /\ Malformed(profiles[1].hobby)) => call.sub.hobby = 0

(* C15, amended: a hobby field that arrives as a string that cannot be      *)
(* parsed is kept as the one-element set holding the raw string, and the    *)
(* hobby sub-score is the Jaccard index of that set with the hobby set of   *)
(* the other profile (1.0 against the same raw string or the list holding   *)
(* it).                                                                     *)
C15_MalformedIsSingleton ==
    (Compared /\ Malformed(profiles[1].hobby)) =>
        /\ HobbyOf(profiles[1]) = {profiles[1].hobby.text}
        /\ call.sub.hobby = JaccardOf({profiles[1].hobby.text}, HobbyOf(profiles[2]))

(* an unparsable hobby string matched by the native list holding the same text *)
C15_Witness ==
    /\ Compared
    /\ Malformed(profiles[1].hobby)
    /\ profiles[2].hobby.kind = "list"
    /\ call.sub.hobby = JScale
    /\ call.weights.hobby > 0

C17_NegativeWeightRejected ==
    (Created /\ ~NonNegative(call.weights) /\ call.group_size >= 2
        /\ call.students # <<>>) =>
        /\ call.outcome \in Raised
        /\ call.groups = <<>>

StoredMembers == Flatten(AsTuple([k \in 1..Len(gruppi) |-> gruppi[k].membri]))

(* C18: when two calls of create_groups_ext for the same session, run with  *)
(* their steps interleaved, have both finished, the stored groups are one   *)
(* complete grouping: every profile id is a member of exactly one stored    *)
(* group.                                                                   *)
C18_ConcurrentSafe ==
    (inflight # <<>> /\ \A p \in DOMAIN inflight : inflight[p].pc = "done") =>
        /\ Len(StoredMembers) = Len(profiles)
        /\ Range(StoredMembers) = StudentIds(profiles)

(* C19: the group at 0-based position idx in formation order is named       *)
(* pool[idx % len(pool)], pool being the name list of the session theme, so *)
(* the names start again from the first when the groups outnumber them;     *)
(* the stored row of that position carries that name and the members of     *)
(* the group formed at that position.                                       *)
C19_Naming ==
    (Created /\ call.outcome = "ok" /\ tema \in DOMAIN THEME_GROUP_NAMES) =>
        LET pool == THEME_GROUP_NAMES[tema]
        IN  /\ Len(call.names) = Len(call.groups)
            /\ Len(gruppi) = Len(call.groups)
            /\ \A k \in 1..Len(call.groups) :
                  /\ call.names[k] = pool[((k - 1) % Len(pool)) + 1]
                  /\ gruppi[k].nome_gruppo = call.names[k]
                  /\ gruppi[k].membri = call.groups[k]

(* more groups than names: the group after the last name takes the first *)
C19_Witness ==
    /\ Created /\ call.outcome = "ok"
    /\ tema = "Spazio"
    /\ Len(call.groups) > Len(THEME_GROUP_NAMES[tema])
    /\ call.names[Len(THEME_GROUP_NAMES[tema]) + 1] = "Apollo"
    /\ gruppi[Len(THEME_GROUP_NAMES[tema]) + 1].nome_gruppo = "Apollo"

(* C20: the student's page shows a group only when publish_groups has been  *)
(* called for the session; until then it shows none, even when groups are   *)
(* stored.                                                                  *)
C20_PublicationGate ==
    (call.op = "student_view" /\ call.shown # NoGroup) => ever_published

(* a student is shown the stored group that lists them *)
C20_Witness ==
    /\ call.op = "student_view"
    /\ call.shown # NoGroup
    /\ call.nickname_id \in Range(call.shown.membri)
    /\ ever_published

(* position in the fetched list of the profile with this id *)
PosOf(students, id) == CHOOSE i \in 1..Len(students) : students[i].id = id

(* the sum of the similarities of students[i] to every other profile *)
RECURSIVE SimSum(_, _, _, _)
SimSum(students, i, weights, k) ==
    IF k = 0 THEN 0
    ELSE SimSum(students, i, weights, k - 1)
         + (IF students[k].id = students[i].id THEN 0
            ELSE compute_similarity_ext(students[i], students[k], weights))

(* the groups with the reversed chunks turned back, one after the other *)
SortedIds(groups) ==
    Flatten(AsTuple([k \in 1..Len(groups) |->
                        IF k % 2 = 0 THEN Reverse(groups[k]) ELSE groups[k]]))

C25_ChunkSizes ==
    (Created /\ call.group_size >= 2 /\ call.students # <<>>) =>
        LET n == Len(call.students)
            gs == call.group_size
            count == (n + gs - 1) \div gs
        IN  /\ Len(call.groups) = count
            /\ \A k \in 1..Len(call.groups) :
                  Len(call.groups[k]) = IF k < count THEN gs ELSE n - gs * (count - 1)
            /\ n - gs * (count - 1) >= 1

(* a last group that is smaller than the others *)
C25_Witness ==
    /\ Created /\ call.outcome = "ok"
    /\ call.group_size = 2
    /\ Len(call.students) = 5
    /\ Len(call.groups) = 3
    /\ Len(call.groups[3]) = 1

(* C26: after a call of create_groups_ext that went through, also when a    *)
(* store delete or insert failed on the way, every stored group of the      *)
(* session is a group of that latest call and no profile id is a member of  *)
(* two stored groups.                                                       *)
C26_StoreReplaced ==
    (Created /\ call.outcome = "ok") =>
        /\ \A k \in 1..Len(gruppi) : gruppi[k].membri \in Range(call.groups)
        /\ \A k \in 1..Len(gruppi), j \in 1..Len(gruppi) :
              k # j => Range(gruppi[k].membri) \cap Range(gruppi[j].membri) = {}

(* C28: when create_groups_ext has run again after the last publish_groups  *)
(* of a published session, the student's page shows no group until          *)
(* publish_groups runs again.                                               *)
C28_RecreationUnpublishes ==
    (call.op = "student_view" /\ ever_published /\ published = FALSE) =>
        call.shown = NoGroup

(* C21: a call of create_nickname whose read and insert succeed stores one   *)
(* new row with the code max(existing code4) + 1, or 0 for a session without *)
(* nicknames; when that code would exceed 99999 the call raises and stores   *)
(* no row                                                                    *)
C21_ProgressiveOrError ==
    (/\ call.op = "create_nickname"
     /\ ~call.read_fails /\ call.failed = {} /\ call.returned = "row") =>
        LET existing == ExistingCodes(call.before)
            expected == IF existing = {} THEN 0 ELSE Max(existing) + 1
        IN  IF expected > CodeLimit
            THEN call.outcome # "ok" /\ nicknames = call.before
            ELSE /\ call.outcome = "ok"
                 /\ nicknames = Append(call.before,
                                       NickRecord(Len(call.before) + 1, expected))

C22_OneNicknamePerGuest ==
    /\ \A i \in 1..Len(nicknames), j \in 1..Len(nicknames) :
          (/\ nicknames[i].session_id = nicknames[j].session_id
           /\ nicknames[i].guest_id = nicknames[j].guest_id) => i = j
    /\ (call.op = "join_view" /\ call.reserved) => ~call.existed

(* a guest who already has a row runs join_view again and is shown its code *)
C22_Witness ==
    /\ call.op = "join_view" /\ call.existed /\ call.outcome = "shown"
    /\ ~call.reserved
    /\ \E i \in 1..Len(nicknames) :
          /\ nicknames[i].session_id = call.session_id
          /\ nicknames[i].guest_id = call.guest_id
          /\ nicknames[i].code4 = call.code4

(* C23: save_profile changes the alias in 'nicknames' only in a call that   *)
(* found the profile row in 'profiles'; when the nickname id is no UUID, is *)
(* not in 'nicknames', or the verification finds no profile row, the call   *)
(* raises RuntimeError and leaves the aliases unchanged, and for the first  *)
(* two it writes no profile row                                             *)
C23_AliasAfterProfile ==
    call.op = "save_profile" =>
        LET id == call.nickname_id
            known == id \in RowIds(call.nicknames_before)
        IN  /\ nicknames # call.nicknames_before => id \in RowIds(profiles)
            /\ ~IsUuid(id) =>
                  /\ call.outcome = "RuntimeError"
                  /\ nicknames = call.nicknames_before
                  /\ profiles = call.profiles_before
            /\ (IsUuid(id) /\ ~known /\ call.raises # "nick_chk") =>
                  /\ call.outcome = "RuntimeError"
                  /\ nicknames = call.nicknames_before
                  /\ profiles = call.profiles_before
            /\ (IsUuid(id) /\ known /\ call.raises = "none" /\ id \notin RowIds(profiles)) =>
                  /\ call.outcome = "RuntimeError"
                  /\ nicknames = call.nicknames_before

(* both upserts of a known nickname without profile row fail: the call      *)
(* raises after the verification and the alias passed is not stored         *)
C23_Witness ==
    /\ call.op = "save_profile" /\ call.outcome = "RuntimeError"
    /\ call.nickname_id \in RowIds(nicknames)
    /\ call.failed = {1, 2} /\ call.raises = "none"
    /\ call.nickname_id \notin RowIds(profiles)
    /\ \E i \in 1..Len(nicknames) :
          nicknames[i].id = call.nickname_id /\ nicknames[i].nickname # call.alias

(* C29: when save_profile returns without raising, the row of 'profiles'    *)
(* with the nickname id holds the approccio, hobby, materie_fatte,          *)
(* materie_dafare and obiettivi passed to the call, also when the id had a  *)
(* row before                                                               *)
C29_SuccessMeansStored ==
    (call.op = "save_profile" /\ call.outcome = "ok") =>
        \E i \in 1..Len(profiles) :
            /\ profiles[i].id = call.nickname_id
            /\ profiles[i].approccio = call.record.approccio
            /\ profiles[i].hobby = call.record.hobby
            /\ profiles[i].materie_fatte = call.record.materie_fatte
            /\ profiles[i].materie_dafare = call.record.materie_dafare
            /\ profiles[i].obiettivi = call.record.obiettivi

(* C30: in every tab of the student's page, a student_nickname_id held in   *)
(* the session state is the id of a nickname created for the session id     *)
(* held in student_session_id; and a run in which a different session id is *)
(* entered leaves no nickname id and no PIN in the state and in the cookies *)
C30_NicknameOfCurrentSession ==
    /\ \A t \in Tabs :
          session_state[t].nick # 0 =>
              \E i \in 1..Len(nicknames) :
                  /\ nicknames[i].id = session_state[t].nick
                  /\ nicknames[i].session_id = session_state[t].sid
    /\ (call.op = "student_run" /\ call.changed) =>
          /\ session_state[call.tab].nick = 0 /\ session_state[call.tab].pin = -1
          /\ cookies.nick = 0 /\ cookies.pin = -1

====
